---- MODULE Spec2Model ----
(***************************************************************************)
(* The checkpoint subsystem of vm_manager (LibvirtService, checkpoint      *)
(* operations): whole-file copies of a VM's disk kept in a per-VM          *)
(* checkpoint directory with JSON sidecars, and the persistent libvirt     *)
(* definition that names the disk the VM boots from.                       *)
(*                                                                         *)
(* A path below DISK_DIR is a record [dir, stem]: dir = "root" is DISK_DIR *)
(* itself (<stem>.qcow2), dir = vm is DISK_DIR/checkpoints/<vm>, which     *)
(* holds <stem>.qcow2 and <stem>.json.                                     *)
(***************************************************************************)
EXTENDS Integers, Sequences, FiniteSets, TLC

\* The wall clock runs over the instants 0..MaxTime, TicksPerSecond of them
\* to a second: datetime.now() is finer than the second that strftime keeps.
MaxTime == 2
TicksPerSecond == 2

VMNames == {"alpha", "beta"}
\* VMs whose checkpoint directory is operated on.
CkptVMs == {"alpha"}
Instants == 0..MaxTime

\* strftime("%Y-%m-%d %H:%M:%S"), strftime("%Y%m%d-%H%M%S"): the instant cut
\* to its second.
Second(t) == t \div TicksPerSecond
Seconds == {Second(t) : t \in Instants}

\* f"auto-{datetime.now().strftime('%Y%m%d-%H%M%S')}": one name per second.
AutoName(t) == "auto-" \o ToString(Second(t))

\* Names a caller may pass; a user may type a name of the auto-generated form.
UserNames == {"snap1"}
CkptNames == UserNames \cup {AutoName(t) : t \in Instants}

\* Disk file contents: whole images, a truncated image, or no file.
Contents == {"A", "B"}
Partial == "partial"
NoFile == "nofile"

MainDisk(vm) == [dir |-> "root", stem |-> vm]
CkptDisk(vm, n) == [dir |-> vm, stem |-> n]
DiskPaths == {MainDisk(v) : v \in VMNames} \cup {CkptDisk(v, n) : v \in CkptVMs, n \in CkptNames}

\* Metadata file contents; "created" is datetime.now().isoformat(), which keeps
\* the whole instant.
NoMeta == [kind |-> "none"]
Garbage == [kind |-> "garbage"]
Record(n, t) == [kind |-> "record", name |-> n, created |-> t]
\* Metadata files as other programs may leave them: a file that cannot be
\* opened, JSON text that is not an object, an object whose "created" is not
\* a string.
Unreadable == [kind |-> "unreadable"]
NotARecord == [kind |-> "not_record"]
BadCreated(n) == [kind |-> "bad_created", name |-> n]

NoDomain == [defined |-> FALSE]
Domain(p, r, l) == [defined |-> TRUE, disk |-> p, running |-> r, live |-> l]

VARIABLES
    disk,   \* disk[p]: content of the .qcow2 file at path p
    meta,   \* meta[vm][n]: content of checkpoints/<vm>/<n>.json
    dirs,   \* the VMs whose checkpoint directory exists
    dom,    \* dom[vm]: the libvirt domain (persistent disk path, live disk path)
    now,    \* the wall clock, in instants
    calls,  \* the number of checkpoint calls made so far
    faults, \* the number of those calls struck by an error
    last,   \* the call that produced this state, with its result
    pre,    \* the files and definitions as they were when that call started
    threads, \* threads[t]: how far the call of thread t has come and its locals
    dialog  \* the CheckpointDialog: its fields and the position of its handler

vars == <<disk, meta, dirs, dom, now, calls, faults, last, pre, threads, dialog>>

World == [disk |-> disk, meta |-> meta, dirs |-> dirs, dom |-> dom]

Ok(W) == [w |-> W, ok |-> TRUE]
Fail(W) == [w |-> W, ok |-> FALSE]

Exists(W, p) == W.disk[p] # NoFile
MetaExists(W, vm, n) == W.meta[vm][n] # NoMeta

\* conn.lookupByName: raises libvirtError for an unknown name or a lost connection.
lookupByName(W, vm, f) == W.dom[vm].defined /\ f # "lookup"

\* domain.XMLDesc(): the live definition of a running domain, else the persistent one.
XMLDesc(W, vm) == IF W.dom[vm].running THEN W.dom[vm].live ELSE W.dom[vm].disk

\* domain.XMLDesc(VIR_DOMAIN_XML_INACTIVE): the persistent definition.
XMLDescInactive(W, vm) == W.dom[vm].disk

\* checkpoint_dir.mkdir(parents=True, exist_ok=True)
mkdir(W, vm, f) ==
    IF vm \in W.dirs THEN Ok(W)
    ELSE IF f = "mkdir" THEN Fail(W)
    ELSE Ok([W EXCEPT !.dirs = @ \cup {vm}])

\* shutil.copy2(src, dst): an interrupted copy raises and leaves dst truncated.
copy2(W, src, dst, f) ==
    IF f = "copy" THEN Fail([W EXCEPT !.disk[dst] = Partial])
    ELSE Ok([W EXCEPT !.disk[dst] = W.disk[src]])

\* with open(metadata_file, "w") as f: json.dump(metadata, f)
write_metadata(W, vm, n, rec, f) ==
    CASE f = "meta_open" -> Fail(W)
      [] f = "meta_mid" -> Fail([W EXCEPT !.meta[vm][n] = Garbage])
      [] OTHER -> Ok([W EXCEPT !.meta[vm][n] = rec])

\* The collision check left out.
AlreadyExists_unchecked(W, p) == FALSE

\* if checkpoint_disk.exists(): return False  # Already exists
AlreadyExists(W, p) == Exists(W, p)

(***************************************************************************)
(* create_checkpoint(vm_name, checkpoint_name, description)                *)
(***************************************************************************)
create_checkpoint(W, vm, n, f, t) ==
    IF ~lookupByName(W, vm, f) THEN Fail(W)
    ELSE LET disk_path == XMLDesc(W, vm)
             checkpoint_disk == CkptDisk(vm, n)
         IN IF ~Exists(W, disk_path) THEN Fail(W)
            ELSE LET d == mkdir(W, vm, f)
                 IN IF ~d.ok THEN d
                    ELSE IF AlreadyExists(d.w, checkpoint_disk) THEN Fail(d.w)
                    ELSE LET c == copy2(d.w, disk_path, checkpoint_disk, f)
                         IN IF ~c.ok THEN c
                            ELSE write_metadata(c.w, vm, n, Record(n, t), f)

CreateFaults == {"none", "lookup", "mkdir", "copy", "meta_open", "meta_mid"}

(***************************************************************************)
(* list_checkpoints(vm_name): one entry per parsable *.json file, with     *)
(* is_active computed by comparing the persistent disk path with           *)
(* checkpoint_dir / f"{name}.qcow2".                                       *)
(***************************************************************************)
\* is_active taken from the directory of the current disk, not from its path.
IsActive_by_directory(current_disk, checkpoint_disk) ==
    current_disk.dir = checkpoint_disk.dir

\* is_active = current_disk == checkpoint_disk
IsActive(current_disk, checkpoint_disk) == current_disk = checkpoint_disk

list_checkpoints(W, vm) ==
    IF ~W.dom[vm].defined THEN {}
    ELSE IF vm \notin W.dirs THEN {}
    ELSE LET current_disk == XMLDescInactive(W, vm)
         IN {[stem |-> s,
              name |-> W.meta[vm][s].name,
              created |-> Second(W.meta[vm][s].created),
              is_active |-> IsActive(current_disk, CkptDisk(vm, W.meta[vm][s].name))] :
                s \in {n \in CkptNames : W.meta[vm][n].kind = "record"}}

\* One pass of the loop body over a metadata file: an entry is appended, the
\* file is skipped (json.JSONDecodeError, OSError: continue), or an exception
\* that no handler of list_checkpoints names leaves the loop (AttributeError
\* of metadata.get on a non-object, TypeError of datetime.fromisoformat on a
\* non-string).
read_metadata(m) ==
    CASE m.kind = "record" -> "entry"
      [] m.kind \in {"garbage", "unreadable"} -> "skip"
      [] OTHER -> "raise"

\* checkpoint_dir.glob("*.json") yields the metadata files in directory
\* order, which is any order.
Orders(S) ==
    {q \in [1..Cardinality(S) -> S] :
        \A i, j \in 1..Cardinality(S) : q[i] = q[j] => i = j}
glob(W, vm) ==
    IF vm \in W.dirs THEN Orders({n \in CkptNames : MetaExists(W, vm, n)})
    ELSE {<<>>}

\* created_str = dt.strftime("%Y-%m-%d %H:%M:%S")
created_str(m) == Second(m.created)

\* (name, created_str, is_active), with the file the entry was read from.
Entry(W, vm, s) ==
    [stem |-> s,
     name |-> W.meta[vm][s].name,
     created |-> created_str(W.meta[vm][s]),
     is_active |-> IsActive(XMLDescInactive(W, vm), CkptDisk(vm, W.meta[vm][s].name))]

\* checkpoints.sort(key=lambda x: x[1], reverse=True): a stable sort, entries
\* with equal created_str stay in the order they were appended.
RECURSIVE sort_reverse(_)
sort_reverse(q) ==
    IF q = <<>> THEN <<>>
    ELSE LET top == CHOOSE k \in {q[i].created : i \in DOMAIN q} :
                        \A i \in DOMAIN q : q[i].created <= k
             IsTop(e) == e.created = top
             IsBelow(e) == e.created # top
         IN SelectSeq(q, IsTop) \o sort_reverse(SelectSeq(q, IsBelow))

Returned(W, q) == [w |-> W, raised |-> FALSE, entries |-> q]
Raises(W) == [w |-> W, raised |-> TRUE, entries |-> <<>>]

\* The loop over the files in the order g, then the sort.
read_all(W, vm, g) ==
    IF \E i \in DOMAIN g : read_metadata(W.meta[vm][g[i]]) = "raise"
    THEN Raises(W)
    ELSE LET IsEntry(s) == read_metadata(W.meta[vm][s]) = "entry"
             read == SelectSeq(g, IsEntry)
         IN Returned(W, sort_reverse([i \in DOMAIN read |-> Entry(W, vm, read[i])]))

\* The checkpoint directory made when missing, as the other operations do.
list_checkpoints_call_mkdir(W, vm, g, f) ==
    IF ~lookupByName(W, vm, f) THEN Returned(W, <<>>)
    ELSE read_all(mkdir(W, vm, "none").w, vm, g)

\* The call as a whole, for the directory order g: the world after it and
\* what the caller gets.
list_checkpoints_call(W, vm, g, f) ==
    IF ~lookupByName(W, vm, f) THEN Returned(W, <<>>)
    ELSE IF vm \notin W.dirs THEN Returned(W, <<>>)
    ELSE read_all(W, vm, g)

ListFaults == {"none", "lookup"}

(***************************************************************************)
(* switch_checkpoint(vm_name, checkpoint_name)                             *)
(***************************************************************************)
\* The early return for the active checkpoint left out.
AlreadyActive_unchecked(current_disk, target) == FALSE

\* if current_disk == target_checkpoint_disk: return True
AlreadyActive(current_disk, target) == current_disk = target

\* The current disk saved before every switch, wherever it lies.
NeedsPreserve_always(current_disk, vm) == TRUE

\* The test inverted: the current disk is saved only when it is a checkpoint.
NeedsPreserve_inverted(current_disk, vm) == current_disk.dir = vm

\* if current_disk.parent != checkpoint_dir
NeedsPreserve(current_disk, vm) == current_disk.dir # vm

\* The auto-save of the current disk: copy, then minimal metadata.
auto_preserve(W, vm, current_disk, f, t) ==
    LET c == copy2(W, current_disk, CkptDisk(vm, AutoName(t)), f)
    IN IF ~c.ok THEN c
       ELSE write_metadata(c.w, vm, AutoName(t), Record(AutoName(t), t), f)

\* disk_elem.set("file", ...); self.conn.defineXML(...) of the persistent XML.
\* The return value is not read here; a failed definition raises libvirtError.
redefine_disk(W, vm, target, f) ==
    IF f = "define_raise" THEN Fail(W)
    ELSE Ok([W EXCEPT !.dom[vm].disk = target])

\* The definition rewritten whether or not the auto-save succeeded.
commit_switch_unconditional(p, vm, target, f) ==
    [w |-> redefine_disk(p.w, vm, target, f).w, ok |-> p.ok]

\* An exception of the auto-save leaves the try block before the definition
\* is rewritten.
commit_switch(p, vm, target, f) ==
    IF ~p.ok THEN p ELSE redefine_disk(p.w, vm, target, f)

switch_checkpoint(W, vm, n, f, t) ==
    IF ~lookupByName(W, vm, f) THEN Fail(W)
    ELSE LET current_disk == XMLDescInactive(W, vm)
             target == CkptDisk(vm, n)
         IN IF ~Exists(W, current_disk) THEN Fail(W)
            ELSE LET d == mkdir(W, vm, f)
                 IN IF ~d.ok THEN d
                    ELSE IF ~Exists(d.w, target) THEN Fail(d.w)
                    ELSE IF AlreadyActive(current_disk, target) THEN Ok(d.w)
                    ELSE LET p == IF NeedsPreserve(current_disk, vm)
                                  THEN auto_preserve(d.w, vm, current_disk, f, t)
                                  ELSE Ok(d.w)
                         IN commit_switch(p, vm, target, f)

SwitchFaults == CreateFaults \cup {"define_raise"}

(***************************************************************************)
(* delete_checkpoint(vm_name, checkpoint_name)                             *)
(***************************************************************************)
\* if checkpoint_disk.exists(): checkpoint_disk.unlink()
unlink_disk(W, p, f) ==
    IF ~Exists(W, p) THEN Ok(W)
    ELSE IF f = "unlink_disk" THEN Fail(W)
    ELSE Ok([W EXCEPT !.disk[p] = NoFile])

\* if metadata_file.exists(): metadata_file.unlink()
unlink_metadata(W, vm, n, f) ==
    IF ~MetaExists(W, vm, n) THEN Ok(W)
    ELSE IF f = "unlink_meta" THEN Fail(W)
    ELSE Ok([W EXCEPT !.meta[vm][n] = NoMeta])

\* The call failing when the disk file is not there.
delete_checkpoint_requires_disk(W, vm, n, f) ==
    IF ~Exists(W, CkptDisk(vm, n)) THEN Fail(W)
    ELSE LET u == unlink_disk(W, CkptDisk(vm, n), f)
         IN IF ~u.ok THEN u ELSE unlink_metadata(u.w, vm, n, f)

delete_checkpoint(W, vm, n, f) ==
    LET u == unlink_disk(W, CkptDisk(vm, n), f)
    IN IF ~u.ok THEN u ELSE unlink_metadata(u.w, vm, n, f)

DeleteFaults == {"none", "unlink_disk", "unlink_meta"}

(***************************************************************************)
(* separate_checkpoint_to_vm(checkpoint_name, new_vm_name, source_vm_name) *)
(***************************************************************************)
\* The disk copied to the new place instead of moved.
rename_as_copy(W, src, dst, f) ==
    IF f = "rename" THEN Fail(W)
    ELSE Ok([W EXCEPT !.disk[dst] = W.disk[src]])

\* checkpoint_disk.rename(new_disk)
rename(W, src, dst, f) ==
    IF f = "rename" THEN Fail(W)
    ELSE Ok([W EXCEPT !.disk[dst] = W.disk[src], !.disk[src] = NoFile])

\* self.conn.defineXML of the cloned XML (new name, no uuid, new disk path):
\* "ok", "raise" (libvirtError; also when the name is already defined) or "none".
define_outcome(W, new_vm, f) ==
    IF f = "define_raise" \/ W.dom[new_vm].defined THEN "raise"
    ELSE IF f = "define_none" THEN "none"
    ELSE "ok"

\* The clone registered with the disk path of the source document left in, the
\* path the checkpoint had.
define_new_vm_stale_disk(W, new_vm, new_disk, checkpoint_disk, f) ==
    CASE define_outcome(W, new_vm, f) = "raise" -> Fail(W)
      [] define_outcome(W, new_vm, f) = "none" ->
            Fail([W EXCEPT !.disk[checkpoint_disk] = W.disk[new_disk],
                           !.disk[new_disk] = NoFile])
      [] OTHER -> Ok([W EXCEPT !.dom[new_vm] =
                        Domain(checkpoint_disk, FALSE, checkpoint_disk)])

\* The test for a disk of the new name left out.
NewDiskExists_unchecked(W, new_disk) == FALSE

\* if new_disk.exists(): return False
NewDiskExists(W, new_disk) == Exists(W, new_disk)

\* new_domain = defineXML(...); if new_domain is None: move the disk back.
define_new_vm(W, new_vm, new_disk, checkpoint_disk, f) ==
    CASE define_outcome(W, new_vm, f) = "raise" -> Fail(W)
      [] define_outcome(W, new_vm, f) = "none" ->
            Fail([W EXCEPT !.disk[checkpoint_disk] = W.disk[new_disk],
                           !.disk[new_disk] = NoFile])
      [] OTHER -> Ok([W EXCEPT !.dom[new_vm] = Domain(new_disk, FALSE, new_disk)])

separate_checkpoint_to_vm(W, n, new_vm, vm, f) ==
    IF ~lookupByName(W, vm, f) THEN Fail(W)
    ELSE LET checkpoint_disk == CkptDisk(vm, n)
             new_disk == MainDisk(new_vm)
         IN IF ~Exists(W, checkpoint_disk) THEN Fail(W)
            ELSE IF NewDiskExists(W, new_disk) THEN Fail(W)
            ELSE LET r == rename(W, checkpoint_disk, new_disk, f)
                 IN IF ~r.ok THEN r
                    ELSE LET u == unlink_metadata(r.w, vm, n, f)
                         IN IF ~u.ok THEN u
                            ELSE define_new_vm(u.w, new_vm, new_disk, checkpoint_disk, f)

SeparateFaults == {"none", "lookup", "rename", "unlink_meta", "define_raise", "define_none"}

(***************************************************************************)
(* The state machine: one action per call, each with the place (if any)    *)
(* where an I/O or hypervisor error strikes it.                            *)
(***************************************************************************)
\* At most MaxCalls checkpoint calls are made in one run.
MaxCalls == 2

Calls == {"create", "switch", "delete", "separate"}

\* At most MaxFaults of the calls of one run are struck by an error.
MaxFaults == 1

\* A fault is noted only where it changes the call: an error at a step the
\* call does not reach is the run without the error.
Strikes(f, r, r0) == f = "none" \/ (faults < MaxFaults /\ r # r0)

Call(op, vm, n, nv, f, r) ==
    /\ calls' = calls + 1
    /\ faults' = IF f = "none" THEN faults ELSE faults + 1
    /\ disk' = r.w.disk
    /\ meta' = r.w.meta
    /\ dirs' = r.w.dirs
    /\ dom' = r.w.dom
    /\ last' = [op |-> op, vm |-> vm, name |-> n, newvm |-> nv, fault |-> f, ok |-> r.ok]
    /\ pre' = World
    /\ now' = now
    /\ UNCHANGED <<threads, dialog>>

CreateCheckpoint ==
    /\ calls < MaxCalls
    /\ \E vm \in CkptVMs, n \in CkptNames, f \in CreateFaults :
        LET r == create_checkpoint(World, vm, n, f, now)
        IN /\ Strikes(f, r, create_checkpoint(World, vm, n, "none", now))
           /\ Call("create", vm, n, vm, f, r)

SwitchCheckpoint ==
    /\ calls < MaxCalls
    /\ \E vm \in CkptVMs, n \in CkptNames, f \in SwitchFaults :
        LET r == switch_checkpoint(World, vm, n, f, now)
        IN /\ Strikes(f, r, switch_checkpoint(World, vm, n, "none", now))
           /\ Call("switch", vm, n, vm, f, r)

DeleteCheckpoint ==
    /\ calls < MaxCalls
    /\ \E vm \in CkptVMs, n \in CkptNames, f \in DeleteFaults :
        LET r == delete_checkpoint(World, vm, n, f)
        IN /\ Strikes(f, r, delete_checkpoint(World, vm, n, "none"))
           /\ Call("delete", vm, n, vm, f, r)

SeparateCheckpoint ==
    /\ calls < MaxCalls
    /\ \E vm \in CkptVMs, n \in CkptNames, nv \in VMNames, f \in SeparateFaults :
        LET r == separate_checkpoint_to_vm(World, n, nv, vm, f)
        IN /\ Strikes(f, r, separate_checkpoint_to_vm(World, n, nv, vm, "none"))
           /\ Call("separate", vm, n, nv, f, r)

\* The threads that may each run one call; none has started.
Threads == {1, 2}
NoThreads == [t \in Threads |-> [pc |-> "idle"]]

\* No dialog is open.
NoDialog == [pc |-> "closed"]

Idle(op) == [op |-> op, vm |-> "alpha", name |-> "snap1", newvm |-> "alpha",
             fault |-> "none", ok |-> TRUE]

\* The clock advances between calls.
Tick ==
    /\ now < MaxTime
    /\ now' = now + 1
    /\ last' = Idle("tick")
    /\ pre' = World
    /\ UNCHANGED <<disk, meta, dirs, dom, calls, faults, threads, dialog>>

\* The guest of a running VM writes to the disk it was started on.
GuestWrite ==
    \E vm \in VMNames, c \in Contents :
        /\ dom[vm].defined
        /\ dom[vm].running
        /\ disk[dom[vm].live] \in Contents \ {c}
        /\ disk' = [disk EXCEPT ![dom[vm].live] = c]
        /\ last' = Idle("write")
        /\ pre' = World
        /\ UNCHANGED <<meta, dirs, dom, now, calls, faults, threads, dialog>>

\* The files and definitions an earlier session left: a VM alpha, running or
\* shut off, on its original disk with no checkpoints; the same after
\* create_checkpoint(alpha, snap1); the same after switch_checkpoint(alpha, snap1).
Fresh(r) ==
    [disk |-> [p \in DiskPaths |-> IF p = MainDisk("alpha") THEN "A" ELSE NoFile],
     meta |-> [v \in CkptVMs |-> [n \in CkptNames |-> NoMeta]],
     dirs |-> {},
     dom |-> [v \in VMNames |->
                IF v = "alpha" THEN Domain(MainDisk("alpha"), r, MainDisk("alpha"))
                ELSE NoDomain]]

Created(r) == create_checkpoint(Fresh(r), "alpha", "snap1", "none", 0).w

Switched(r) == switch_checkpoint(Created(r), "alpha", "snap1", "none", 0).w

Init ==
    /\ \E r \in BOOLEAN : \E W \in {Fresh(r), Created(r), Switched(r)} :
        /\ disk = W.disk
        /\ meta = W.meta
        /\ dirs = W.dirs
        /\ dom = W.dom
    /\ now = 0
    /\ calls = 0
    /\ faults = 0
    /\ last = Idle("init")
    /\ pre = World
    /\ threads = NoThreads
    /\ dialog = NoDialog

Next ==
    \/ CreateCheckpoint
    \/ SwitchCheckpoint
    \/ DeleteCheckpoint
    \/ SeparateCheckpoint
    \/ Tick
    \/ GuestWrite

Spec == Init /\ [][Next]_vars

(***************************************************************************)
(* Properties.  last is the call that led to the state, pre the files and  *)
(* definitions when it started; the current values are what it returned    *)
(* with.                                                                   *)
(***************************************************************************)
PreCurrent == pre.dom[last.vm].disk
Target == CkptDisk(last.vm, last.name)
Listed(W, vm, n) == \E e \in list_checkpoints(W, vm) : e.name = n

\* C1 (P3, preserve-before-switch): when switch_checkpoint succeeds for a VM
\* whose persistent disk was not a file of its checkpoint directory, a listed
\* checkpoint with the auto-generated name holds the content the current disk
\* had before the call, and the persistent disk path is the target's disk file.
C1_PreserveBeforeSwitch ==
    (last.op = "switch" /\ last.ok /\ PreCurrent.dir # last.vm) =>
        /\ Listed(World, last.vm, AutoName(now))
        /\ disk[CkptDisk(last.vm, AutoName(now))] = pre.disk[PreCurrent]
        /\ dom[last.vm].disk = Target

\* Reached: such a switch, to a checkpoint whose content differs from the
\* current disk's and whose name is not the generated one.
C1_Witness ==
    /\ last.op = "switch" /\ last.ok
    /\ PreCurrent.dir # last.vm
    /\ last.name # AutoName(now)
    /\ pre.disk[Target] \in Contents \ {pre.disk[PreCurrent]}
    /\ ~Exists(pre, CkptDisk(last.vm, AutoName(now)))

\* C2 (P4, no active deletion): delete_checkpoint of the checkpoint the
\* persistent disk path designates returns failure and leaves its disk file
\* and its metadata file in place.
C2_NoActiveDeletion ==
    (/\ last.op = "delete"
     /\ PreCurrent = Target
     /\ Exists(pre, Target)
     /\ MetaExists(pre, last.vm, last.name)) =>
        /\ ~last.ok
        /\ disk[Target] = pre.disk[Target]
        /\ meta[last.vm][last.name] = pre.meta[last.vm][last.name]

\* C3 (P7, promotion rollback): when the definition of the new VM fails after
\* the checkpoint disk was moved, separate_checkpoint_to_vm returns failure,
\* the disk is back at its checkpoint path and a checkpoint that was listed is
\* still listed.
C3_PromotionRollback ==
    (last.op = "separate" /\ last.fault \in {"define_raise", "define_none"}) =>
        /\ ~last.ok
        /\ disk[Target] = pre.disk[Target]
        /\ (Listed(pre, last.vm, last.name) => Listed(World, last.vm, last.name))

\* C4 (P2, exactly-one-active): list_checkpoints never reports more than one
\* entry with is_active.
C4_AtMostOneActive ==
    \A vm \in CkptVMs :
        Cardinality({e \in list_checkpoints(World, vm) : e.is_active}) <= 1

\* Reached: after a create or a switch, a listing of several checkpoints, one
\* of them active.
C4_Witness ==
    /\ last.op \in {"create", "switch"} /\ last.ok
    /\ Cardinality(list_checkpoints(World, last.vm)) >= 2
    /\ Cardinality({e \in list_checkpoints(World, last.vm) : e.is_active}) = 1

\* C5 (P1, idempotent switch): switch_checkpoint to the checkpoint whose
\* existing disk file the persistent disk path already designates returns
\* success (the hypervisor answering the lookup), and changes neither the
\* persistent disk path nor any disk or metadata file.
C5_IdempotentSwitch ==
    (last.op = "switch" /\ PreCurrent = Target /\ Exists(pre, Target)) =>
        /\ last.fault # "lookup" => last.ok
        /\ dom = pre.dom
        /\ disk = pre.disk
        /\ meta = pre.meta

\* Reached: a switch to the active checkpoint that returned success.
C5_Witness ==
    /\ last.op = "switch" /\ last.ok
    /\ PreCurrent = Target
    /\ Exists(pre, Target)

\* C6 (P5, collision safety): create_checkpoint under a name whose disk file
\* exists returns failure and leaves that disk file and the metadata file of
\* that name as they were.
C6_CollisionSafety ==
    (last.op = "create" /\ Exists(pre, Target)) =>
        /\ ~last.ok
        /\ disk[Target] = pre.disk[Target]
        /\ meta[last.vm][last.name] = pre.meta[last.vm][last.name]

\* Reached: a create under the name of a checkpoint with metadata, whose
\* content differs from the disk create_checkpoint would copy.
C6_Witness ==
    /\ last.op = "create"
    /\ Exists(pre, Target)
    /\ MetaExists(pre, last.vm, last.name)
    /\ pre.disk[XMLDesc(pre, last.vm)] \in Contents \ {pre.disk[Target]}

\* C7 (P6, promotion round-trip): when separate_checkpoint_to_vm succeeds the
\* checkpoint is no longer listed for the source VM, the new VM's disk path
\* holds the content the checkpoint disk had, and the checkpoint disk path no
\* longer exists.
C7_PromotionRoundTrip ==
    (last.op = "separate" /\ last.ok) =>
        /\ ~Listed(World, last.vm, last.name)
        /\ disk[MainDisk(last.newvm)] = pre.disk[Target]
        /\ ~Exists(World, Target)

\* Reached: a successful promotion of a listed checkpoint.
C7_Witness ==
    /\ last.op = "separate" /\ last.ok
    /\ Listed(pre, last.vm, last.name)
    /\ pre.disk[Target] \in Contents

\* C8 (abort before the pointer rewrite): a switch_checkpoint whose auto-save
\* copy or metadata write fails returns failure with the persistent
\* definitions as they were; a switch that changes a definition was struck by
\* no error and returns success.
C8_AbortBeforeRewrite ==
    last.op = "switch" =>
        /\ last.fault \in {"copy", "meta_open", "meta_mid"} =>
                (~last.ok /\ dom = pre.dom)
        /\ ~last.ok => dom = pre.dom
        /\ dom # pre.dom => last.fault = "none"

\* Reached: a switch whose auto-save copy was interrupted, leaving a
\* truncated file under the generated name.
C8_Witness ==
    /\ last.op = "switch" /\ last.fault = "copy"
    /\ disk[CkptDisk(last.vm, AutoName(now))] = Partial
    /\ PreCurrent # Target

\* C9 (persistent pointer validity): the persistent disk path of a VM always
\* designates an existing file that is no truncated copy.
C9_PointerValid ==
    \A vm \in VMNames : dom[vm].defined => disk[dom[vm].disk] \in Contents

\* C10 (metadata/disk pairing): at the return of every checkpoint call, each
\* metadata file in the checkpoint directory has its disk file beside it.
C10_MetadataHasDisk ==
    last.op \in Calls =>
        \A n \in CkptNames :
            MetaExists(World, last.vm, n) => Exists(World, CkptDisk(last.vm, n))

(***************************************************************************)
(* list_checkpoints over checkpoint directories whose metadata files were  *)
(* also written by other hands.                                            *)
(***************************************************************************)
\* A file is drawn as <<kind, instant>>; the instant counts for records only.
FileKinds ==
    {<<k, 0>> : k \in {"none", "garbage", "unreadable", "not_record", "bad_created"}}
        \cup {<<"record", t>> : t \in Instants}

File(n, k) ==
    CASE k[1] = "none" -> NoMeta
      [] k[1] = "garbage" -> Garbage
      [] k[1] = "unreadable" -> Unreadable
      [] k[1] = "not_record" -> NotARecord
      [] k[1] = "bad_created" -> BadCreated(n)
      [] OTHER -> Record(n, k[2])

\* The directory of vm, where it exists, holding the files k[n].
WithFiles(W, vm, k) ==
    IF vm \in W.dirs THEN [W EXCEPT !.meta[vm] = [n \in CkptNames |-> File(n, k[n])]]
    ELSE W

ListInit ==
    /\ \E r \in BOOLEAN : \E W0 \in {Fresh(r), Created(r), Switched(r)} :
        \E k \in [CkptNames -> FileKinds] :
            LET W == WithFiles(W0, "alpha", k)
            IN disk = W.disk /\ meta = W.meta /\ dirs = W.dirs /\ dom = W.dom
    /\ now = 0 /\ calls = 0 /\ faults = 0
    /\ last = Idle("init") /\ pre = World
    /\ threads = NoThreads /\ dialog = NoDialog

ListCheckpoints ==
    /\ calls < MaxCalls
    /\ \E vm \in CkptVMs, f \in ListFaults : \E g \in glob(World, vm) :
        LET r == list_checkpoints_call(World, vm, g, f)
        IN /\ Strikes(f, r, list_checkpoints_call(World, vm, g, "none"))
           /\ calls' = calls + 1
           /\ faults' = IF f = "none" THEN faults ELSE faults + 1
           /\ disk' = r.w.disk /\ meta' = r.w.meta /\ dirs' = r.w.dirs /\ dom' = r.w.dom
           /\ last' = [op |-> "list", vm |-> vm, name |-> "snap1", newvm |-> vm,
                       fault |-> f, ok |-> ~r.raised, glob |-> g, out |-> r.entries]
           /\ pre' = World
           /\ now' = now
           /\ UNCHANGED <<threads, dialog>>

ListNext == ListCheckpoints

ListSpec == ListInit /\ [][ListNext]_vars

(***************************************************************************)
(* The other operations of LibvirtService that rewrite or remove a VM      *)
(* definition, beside the checkpoint calls.                                *)
(***************************************************************************)
\* set_boot_order, attach_iso, eject_iso, set_graphics, set_network,
\* set_audio, set_gpu_passthrough, set_usb_passthrough: each reads
\* domain.XMLDesc(), edits an element other than the disk, and hands the
\* document to defineXML, which makes it the persistent definition.
EditOps == {"set_boot_order", "attach_iso", "eject_iso", "set_graphics",
            "set_network", "set_audio", "set_gpu_passthrough", "set_usb_passthrough"}

edit_definition(W, vm, f) ==
    IF ~lookupByName(W, vm, f) THEN Fail(W)
    ELSE IF f = "define_raise" THEN Fail(W)
    ELSE Ok([W EXCEPT !.dom[vm].disk = XMLDesc(W, vm)])

EditFaults == {"none", "lookup", "define_raise"}

\* delete_vm(name, remove_storage): the disks named by domain.XMLDesc() are
\* collected, the domain is destroyed and undefined, then each collected
\* disk that exists is unlinked; an OSError of unlink is not caught.
delete_vm(W, vm, remove_storage, f) ==
    IF ~lookupByName(W, vm, f) THEN Fail(W)
    ELSE LET disks == IF remove_storage THEN {XMLDesc(W, vm)} ELSE {}
             U == [W EXCEPT !.dom[vm] = NoDomain]
         IN IF \E p \in disks : Exists(U, p) /\ f = "unlink_disk" THEN Fail(U)
            ELSE Ok([U EXCEPT !.disk = [p \in DiskPaths |->
                        IF p \in disks THEN NoFile ELSE U.disk[p]]])

DeleteVmFaults == {"none", "lookup", "unlink_disk"}

\* self._create_disk(path, size_gb): qemu-img create, a new image.
create_disk(W, p) == [W EXCEPT !.disk[p] = "A"]

\* create_vm(config) with config.disk_path None: the disk DISK_DIR/<name>.qcow2
\* is made unless it exists, and the domain is defined on it.
create_vm(W, vm, f) ==
    LET D == IF Exists(W, MainDisk(vm)) THEN W ELSE create_disk(W, MainDisk(vm))
    IN IF f = "define_raise" \/ D.dom[vm].defined THEN Fail(D)
       ELSE Ok([D EXCEPT !.dom[vm] = Domain(MainDisk(vm), FALSE, MainDisk(vm))])

CreateVmFaults == {"none", "define_raise"}

EditDefinition ==
    /\ calls < MaxCalls
    /\ \E op \in EditOps, vm \in VMNames, f \in EditFaults :
        LET r == edit_definition(World, vm, f)
        IN /\ Strikes(f, r, edit_definition(World, vm, "none"))
           /\ Call(op, vm, "snap1", vm, f, r)

DeleteVm ==
    /\ calls < MaxCalls
    /\ \E vm \in VMNames, rs \in BOOLEAN, f \in DeleteVmFaults :
        LET r == delete_vm(World, vm, rs, f)
        IN /\ Strikes(f, r, delete_vm(World, vm, rs, "none"))
           /\ Call(IF rs THEN "delete_vm" ELSE "delete_vm_keep_storage", vm, "snap1", vm, f, r)

CreateVm ==
    /\ calls < MaxCalls
    /\ \E vm \in VMNames, f \in CreateVmFaults :
        LET r == create_vm(World, vm, f)
        IN /\ Strikes(f, r, create_vm(World, vm, "none"))
           /\ Call("create_vm", vm, "snap1", vm, f, r)

AdminNext == Next \/ EditDefinition \/ DeleteVm \/ CreateVm

AdminSpec == Init /\ [][AdminNext]_vars

(***************************************************************************)
(* Two threads calling into LibvirtService at once.  No call takes a lock, *)
(* so a call is a sequence of steps, each one file or hypervisor           *)
(* operation on the shared files and definition, and the steps of the two  *)
(* calls interleave freely.  No operation fails here.                      *)
(***************************************************************************)
Other(t) == CHOOSE u \in Threads : u # t

\* The locals of a call in flight: the disk path it read, the name it
\* generated for the auto-save, whether it has copied, and where the other
\* thread stood when this one removed or defined.
Thread(op, n, pc, cur, auto) ==
    [pc |-> pc, op |-> op, name |-> n, current |-> cur, auto |-> auto,
     ok |-> FALSE, copied |-> FALSE, saw |-> "idle"]

Return(th, ok) == [th EXCEPT !.pc = "done", !.ok = ok]

\* switch_checkpoint up to its decision: lookup, persistent XML, exists tests,
\* mkdir, the already-active test, the name of the auto-save.
SwitchBegin(t) ==
    /\ threads[t].pc = "idle"
    /\ \E vm \in CkptVMs, n \in CkptNames :
        LET cur == XMLDescInactive(World, vm)
            target == CkptDisk(vm, n)
            th == Thread("switch", n, "idle", cur, AutoName(now))
            d == mkdir(World, vm, "none")
        IN /\ lookupByName(World, vm, "none")
           /\ IF ~Exists(World, cur)
              THEN /\ threads' = [threads EXCEPT ![t] = Return(th, FALSE)]
                   /\ dirs' = dirs
              ELSE /\ dirs' = d.w.dirs
                   /\ threads' = [threads EXCEPT ![t] =
                        IF ~Exists(d.w, target) THEN Return(th, FALSE)
                        ELSE IF AlreadyActive(cur, target) THEN Return(th, TRUE)
                        ELSE IF NeedsPreserve(cur, vm) THEN [th EXCEPT !.pc = "copy"]
                        ELSE [th EXCEPT !.pc = "define"]]
    /\ UNCHANGED <<disk, meta, dom, now, calls, faults, last, pre, dialog>>

\* shutil.copy2(current_disk, current_checkpoint_disk)
SwitchCopy(t) ==
    /\ threads[t].pc = "copy"
    /\ LET th == threads[t]
           c == copy2(World, th.current, CkptDisk("alpha", th.auto), "none")
       IN /\ disk' = c.w.disk
          /\ threads' = [threads EXCEPT ![t] = [th EXCEPT !.pc = "meta", !.copied = TRUE]]
    /\ UNCHANGED <<meta, dirs, dom, now, calls, faults, last, pre, dialog>>

\* The metadata of the auto-save, created = datetime.now() at this step.
SwitchMeta(t) ==
    /\ threads[t].pc = "meta"
    /\ LET th == threads[t]
           m == write_metadata(World, "alpha", th.auto, Record(th.auto, now), "none")
       IN /\ meta' = m.w.meta
          /\ threads' = [threads EXCEPT ![t] = [th EXCEPT !.pc = "define"]]
    /\ UNCHANGED <<disk, dirs, dom, now, calls, faults, last, pre, dialog>>

\* disk_elem.set("file", target); defineXML; return True
SwitchDefine(t) ==
    /\ threads[t].pc = "define"
    /\ LET th == threads[t]
           r == redefine_disk(World, "alpha", CkptDisk("alpha", th.name), "none")
       IN /\ dom' = r.w.dom
          /\ threads' = [threads EXCEPT ![t] =
                [Return(th, TRUE) EXCEPT !.saw = threads[Other(t)].pc]]
    /\ UNCHANGED <<disk, meta, dirs, now, calls, faults, last, pre, dialog>>

\* delete_checkpoint: if checkpoint_disk.exists(): checkpoint_disk.unlink()
DeleteBegin(t) ==
    /\ threads[t].pc = "idle"
    /\ \E vm \in CkptVMs, n \in CkptNames :
        LET th == Thread("delete", n, "unlink_meta", CkptDisk(vm, n), n)
            u == unlink_disk(World, CkptDisk(vm, n), "none")
        IN /\ disk' = u.w.disk
           /\ threads' = [threads EXCEPT ![t] = [th EXCEPT !.saw = threads[Other(t)].pc]]
    /\ UNCHANGED <<meta, dirs, dom, now, calls, faults, last, pre, dialog>>

\* if metadata_file.exists(): metadata_file.unlink(); return True
DeleteMeta(t) ==
    /\ threads[t].pc = "unlink_meta"
    /\ LET th == threads[t]
           u == unlink_metadata(World, "alpha", th.name, "none")
       IN /\ meta' = u.w.meta
          /\ threads' = [threads EXCEPT ![t] = Return(th, TRUE)]
    /\ UNCHANGED <<disk, dirs, dom, now, calls, faults, last, pre, dialog>>

ConcInit ==
    /\ \E r \in BOOLEAN : \E W \in {Created(r), Switched(r)} :
        /\ disk = W.disk /\ meta = W.meta /\ dirs = W.dirs /\ dom = W.dom
    /\ now = 0 /\ calls = 0 /\ faults = 0
    /\ last = Idle("init") /\ pre = World
    /\ threads = NoThreads /\ dialog = NoDialog

\* The steps of a call under a per-VM lock: a thread moves only while the
\* other one is not inside a call.
ThreadStep_locked(t) ==
    /\ threads[Other(t)].pc \in {"idle", "done"}
    /\ \/ SwitchBegin(t) \/ SwitchCopy(t) \/ SwitchMeta(t) \/ SwitchDefine(t)
       \/ DeleteBegin(t) \/ DeleteMeta(t)

\* The next step of the call of thread t, whatever the other thread does:
\* neither operation acquires anything before it touches files or definition.
ThreadStep(t) ==
    \/ SwitchBegin(t) \/ SwitchCopy(t) \/ SwitchMeta(t) \/ SwitchDefine(t)
    \/ DeleteBegin(t) \/ DeleteMeta(t)

ConcNext == (\E t \in Threads : ThreadStep(t)) \/ Tick \/ GuestWrite

ConcSpec == ConcInit /\ [][ConcNext]_vars

(***************************************************************************)
(* CheckpointDialog (ui/widgets/checkpoint_dialog.py), opened by           *)
(* App._manage_snapshots with the callbacks bound to LibvirtService for    *)
(* the selected VM.  The dialog thread runs the input loop and the         *)
(* handlers; create and delete hand their callback to a worker thread and  *)
(* poll it.  Only the checkpoint tab is followed; the snapshot list is     *)
(* empty.                                                                  *)
(***************************************************************************)
DialogVM == "alpha"

NoWorker == [alive |-> FALSE, op |-> "none", name |-> "snap1", result |-> FALSE,
             error |-> FALSE]
\* The last callback invoked: by which thread, with what result, and whether
\* its checkpoint was the persistent disk of the VM at that moment.
NoCall == [op |-> "none", name |-> "snap1", by |-> "dialog", ok |-> TRUE,
           active |-> FALSE, copies |-> FALSE]

Min(a, b) == IF a < b THEN a ELSE b
Max(a, b) == IF a > b THEN a ELSE b

\* self._set_status(message, status_type)
set_status(D, type) == [D EXCEPT !.status = type]

\* The list kept as it was.
refresh_lists_stale(D, W, g) == [D EXCEPT !.status = ""]

\* self._refresh_lists(): the list read again, the status cleared, the cursor
\* brought back into the list of the tab shown.
refresh_lists(D, W, g) ==
    LET l == list_checkpoints_call(W, DialogVM, g, "none").entries
    IN [D EXCEPT !.checkpoints = l,
                 !.status = "",
                 !.cursor = IF D.mode = "checkpoint"
                            THEN Min(D.cursor, Max(0, Len(l) - 1))
                            ELSE 0]

\* The callbacks as App._manage_snapshots binds them.
on_callback(op, W, n, nv, f, t) ==
    CASE op = "create" -> create_checkpoint(W, DialogVM, n, f, t)
      [] op = "switch" -> switch_checkpoint(W, DialogVM, n, f, t)
      [] op = "delete" -> delete_checkpoint(W, DialogVM, n, f)
      [] OTHER -> separate_checkpoint_to_vm(W, n, nv, DialogVM, f)

CallbackFaults(op) ==
    CASE op = "create" -> CreateFaults
      [] op = "switch" -> SwitchFaults
      [] op = "delete" -> DeleteFaults
      [] OTHER -> SeparateFaults

\* Whether the call wrote a disk file by copying: create_checkpoint, and
\* switch_checkpoint when it preserves the current disk.
Copies(op, W, n, r) ==
    \/ op = "create" /\ r.w.disk # W.disk
    \/ op = "switch" /\ r.w.disk # W.disk

Invoked(op, W, n, by, r) ==
    [op |-> op, name |-> n, by |-> by, ok |-> r.ok,
     active |-> W.dom[DialogVM].defined
                    /\ W.dom[DialogVM].disk = CkptDisk(DialogVM, n),
     copies |-> Copies(op, W, n, r)]

\* The entry under the cursor, where there is one.
HasSelection(D) == D.checkpoints # <<>> /\ D.cursor + 1 <= Len(D.checkpoints)
Selected(D) == D.checkpoints[D.cursor + 1]

\* App._manage_snapshots: list_checkpoints, then the dialog on the snapshot tab.
OpenDialog ==
    /\ dialog.pc = "closed"
    /\ \E g \in glob(World, DialogVM) :
        dialog' = [pc |-> "input", mode |-> "snapshot", cursor |-> 0,
                   checkpoints |-> list_checkpoints_call(World, DialogVM, g, "none").entries,
                   status |-> "", worker |-> NoWorker, keys |-> 0, called |-> NoCall,
                   opened_on |-> dom[DialogVM].disk]
    /\ UNCHANGED <<disk, meta, dirs, dom, now, calls, faults, last, pre, threads>>

\* KEY_TAB
KeyTab ==
    /\ dialog.pc = "input"
    /\ dialog' = [dialog EXCEPT !.mode = IF @ = "snapshot" THEN "checkpoint" ELSE "snapshot",
                                !.cursor = 0, !.status = "", !.keys = 0,
                                !.called = NoCall]
    /\ UNCHANGED <<disk, meta, dirs, dom, now, calls, faults, last, pre, threads>>

\* KEY_UP, KEY_DOWN on the checkpoint tab
KeyCursor ==
    /\ dialog.pc = "input" /\ dialog.mode = "checkpoint"
    /\ \E c \in {Max(0, dialog.cursor - 1),
                 IF dialog.checkpoints # <<>>
                 THEN Min(Len(dialog.checkpoints) - 1, dialog.cursor + 1) ELSE 0} :
        /\ c # dialog.cursor
        /\ dialog' = [dialog EXCEPT !.cursor = c, !.keys = 0, !.called = NoCall]
    /\ UNCHANGED <<disk, meta, dirs, dom, now, calls, faults, last, pre, threads>>

\* KEY_ESCAPE
KeyEscape ==
    /\ dialog.pc = "input"
    /\ dialog' = NoDialog
    /\ UNCHANGED <<disk, meta, dirs, dom, now, calls, faults, last, pre, threads>>

\* thread = threading.Thread(target=..._in_background); thread.start()
start_worker(D, op, n) ==
    [D EXCEPT !.pc = "polling", !.keys = 0, !.called = NoCall,
              !.worker = [alive |-> TRUE, op |-> op, name |-> n, result |-> FALSE,
                          error |-> FALSE]]

\* N on the checkpoint tab: _create_checkpoint up to thread.start(), the name
\* typed into the InputDialog.
KeyN ==
    /\ dialog.pc = "input" /\ dialog.mode = "checkpoint"
    /\ calls < MaxCalls
    /\ \E n \in CkptNames : dialog' = start_worker(dialog, "create", n)
    /\ UNCHANGED <<disk, meta, dirs, dom, now, calls, faults, last, pre, threads>>

\* D on the checkpoint tab: _delete_checkpoint up to thread.start(), or its
\* refusal of the entry shown as active.
KeyD ==
    /\ dialog.pc = "input" /\ dialog.mode = "checkpoint"
    /\ calls < MaxCalls
    /\ HasSelection(dialog)
    /\ dialog' = IF Selected(dialog).is_active
                 THEN [set_status(dialog, "error") EXCEPT !.keys = 0, !.called = NoCall]
                 ELSE start_worker(dialog, "delete", Selected(dialog).name)
    /\ UNCHANGED <<disk, meta, dirs, dom, now, calls, faults, last, pre, threads>>

\* The worker thread: result[0] = self.on_..._checkpoint(...), then it ends.
WorkerRun ==
    /\ dialog.pc = "polling" /\ dialog.worker.alive
    /\ \E f \in CallbackFaults(dialog.worker.op) :
        LET op == dialog.worker.op
            n == dialog.worker.name
            r == on_callback(op, World, n, DialogVM, f, now)
        IN /\ Strikes(f, r, on_callback(op, World, n, DialogVM, "none", now))
           /\ disk' = r.w.disk /\ meta' = r.w.meta /\ dirs' = r.w.dirs /\ dom' = r.w.dom
           /\ calls' = calls + 1
           /\ faults' = IF f = "none" THEN faults ELSE faults + 1
           /\ dialog' = [dialog EXCEPT !.worker.alive = FALSE, !.worker.result = r.ok,
                                       !.called = Invoked(op, World, n, "worker", r)]
    /\ UNCHANGED <<now, last, pre, threads>>

\* A key pressed while the progress frame is shown.
KeyWhilePolling ==
    /\ dialog.pc = "polling" /\ dialog.keys = 0
    /\ dialog' = [dialog EXCEPT !.keys = 1]
    /\ UNCHANGED <<disk, meta, dirs, dom, now, calls, faults, last, pre, threads>>

\* while thread.is_alive(): ... while True: key = inkey(timeout=0) ...
Drain ==
    /\ dialog.pc = "polling" /\ dialog.worker.alive /\ dialog.keys > 0
    /\ dialog' = [dialog EXCEPT !.keys = 0]
    /\ UNCHANGED <<disk, meta, dirs, dom, now, calls, faults, last, pre, threads>>

\* After thread.join() in _create_checkpoint: error, success, or neither.
finish_create(D, W, g) ==
    IF D.worker.error THEN set_status(D, "error")
    ELSE IF D.worker.result THEN set_status(refresh_lists(D, W, g), "success")
    ELSE D

\* After thread.join() in _delete_checkpoint.
finish_delete(D, W, g) ==
    IF D.worker.error THEN set_status(D, "error")
    ELSE IF D.worker.result THEN set_status(refresh_lists(D, W, g), "success")
    ELSE set_status(D, "error")

\* The polling loop left, thread.join(), the result read, back to the input loop.
Finish ==
    /\ dialog.pc = "polling" /\ ~dialog.worker.alive
    /\ \E g \in glob(World, DialogVM) :
        dialog' = [(IF dialog.worker.op = "create"
                    THEN finish_create(dialog, World, g)
                    ELSE finish_delete(dialog, World, g))
                   EXCEPT !.pc = "input", !.worker = NoWorker]
    /\ UNCHANGED <<disk, meta, dirs, dom, now, calls, faults, last, pre, threads>>

\* After on_switch_checkpoint(name) returned: the list read again and the
\* cursor put on the entry now active, or the failure shown.
finish_switch(D, W, g, n, ok) ==
    IF ok
    THEN LET R == refresh_lists(D, W, g)
             hits == {i \in DOMAIN R.checkpoints :
                        R.checkpoints[i].name = n /\ R.checkpoints[i].is_active}
         IN set_status([R EXCEPT !.cursor = IF hits = {} THEN @
                                            ELSE (CHOOSE i \in hits :
                                                    \A j \in hits : i <= j) - 1],
                       "success")
    ELSE set_status(D, "error")

\* ENTER on the checkpoint tab: _switch_checkpoint, confirmed; the callback
\* is called by the dialog thread itself.
KeyEnter ==
    /\ dialog.pc = "input" /\ dialog.mode = "checkpoint"
    /\ calls < MaxCalls
    /\ HasSelection(dialog)
    /\ IF Selected(dialog).is_active
       THEN /\ dialog' = [set_status(dialog, "info") EXCEPT !.keys = 0, !.called = NoCall]
            /\ UNCHANGED <<disk, meta, dirs, dom, calls, faults>>
       ELSE \E f \in SwitchFaults :
            LET n == Selected(dialog).name
                r == on_callback("switch", World, n, DialogVM, f, now)
            IN /\ Strikes(f, r, on_callback("switch", World, n, DialogVM, "none", now))
               /\ disk' = r.w.disk /\ meta' = r.w.meta /\ dirs' = r.w.dirs /\ dom' = r.w.dom
               /\ calls' = calls + 1
               /\ faults' = IF f = "none" THEN faults ELSE faults + 1
               /\ \E g \in glob(r.w, DialogVM) :
                    dialog' = [finish_switch(dialog, r.w, g, n, r.ok)
                               EXCEPT !.keys = 0,
                                      !.called = Invoked("switch", World, n, "dialog", r)]
    /\ UNCHANGED <<now, last, pre, threads>>

\* S on the checkpoint tab: _separate_checkpoint, name typed and confirmed;
\* the callback is called by the dialog thread; show() returns on success.
KeyS ==
    /\ dialog.pc = "input" /\ dialog.mode = "checkpoint"
    /\ calls < MaxCalls
    /\ HasSelection(dialog)
    /\ \E nv \in VMNames, f \in SeparateFaults :
        LET n == Selected(dialog).name
            r == on_callback("separate", World, n, nv, f, now)
        IN /\ Strikes(f, r, on_callback("separate", World, n, nv, "none", now))
           /\ disk' = r.w.disk /\ meta' = r.w.meta /\ dirs' = r.w.dirs /\ dom' = r.w.dom
           /\ calls' = calls + 1
           /\ faults' = IF f = "none" THEN faults ELSE faults + 1
           /\ \E g \in glob(r.w, DialogVM) :
                dialog' = [(IF r.ok THEN set_status(refresh_lists(dialog, r.w, g), "success")
                            ELSE set_status(dialog, "error"))
                           EXCEPT !.keys = 0,
                                  !.pc = IF r.ok THEN "returned" ELSE "input",
                                  !.called = Invoked("separate", World, n, "dialog", r)]
    /\ UNCHANGED <<now, last, pre, threads>>

DialogInit ==
    /\ \E r \in BOOLEAN : \E W \in {Fresh(r), Created(r), Switched(r)} :
        /\ disk = W.disk /\ meta = W.meta /\ dirs = W.dirs /\ dom = W.dom
    /\ now = 0 /\ calls = 0 /\ faults = 0
    /\ last = Idle("init") /\ pre = World
    /\ threads = NoThreads /\ dialog = NoDialog

DialogNext ==
    \/ OpenDialog \/ KeyTab \/ KeyCursor \/ KeyEscape
    \/ KeyN \/ KeyD \/ WorkerRun \/ KeyWhilePolling \/ Drain \/ Finish
    \/ KeyEnter \/ KeyS

DialogSpec == DialogInit /\ [][DialogNext]_vars

(***************************************************************************)
(* C11..C20                                                                *)
(***************************************************************************)
\* The VM as created: its persistent disk is its original disk, which exists,
\* and its checkpoint directory holds nothing.
NoCheckpoints(W, vm) ==
    /\ W.dom[vm].defined
    /\ W.dom[vm].disk = MainDisk(vm)
    /\ Exists(W, MainDisk(vm))
    /\ \A n \in CkptNames : ~Exists(W, CkptDisk(vm, n)) /\ ~MetaExists(W, vm, n)

\* The same VM with the one checkpoint n, whole and recorded under its name.
OnlyCheckpoint(W, vm, n) ==
    /\ W.dom[vm].defined
    /\ W.dom[vm].disk = MainDisk(vm)
    /\ Exists(W, MainDisk(vm))
    /\ vm \in W.dirs
    /\ W.disk[CkptDisk(vm, n)] \in Contents
    /\ W.meta[vm][n].kind = "record" /\ W.meta[vm][n].name = n
    /\ \A m \in CkptNames \ {n} : ~Exists(W, CkptDisk(vm, m)) /\ ~MetaExists(W, vm, m)

NameAndActive(W, vm) == {<<e.name, e.is_active>> : e \in list_checkpoints(W, vm)}

\* C11 (end-to-end scenario): on a VM that boots from its original disk and
\* has no checkpoints, create_checkpoint(vm, snap1) succeeds and leaves snap1
\* as the one checkpoint; switch_checkpoint(vm, snap1) in that state succeeds,
\* and list_checkpoints then has exactly two entries: snap1, active, and one
\* auto-named checkpoint, not active, holding the content of the original disk.
C11_EndToEnd ==
    /\ (last.op = "create" /\ last.name = "snap1" /\ last.fault = "none"
            /\ NoCheckpoints(pre, last.vm))
        => (last.ok /\ OnlyCheckpoint(World, last.vm, "snap1"))
    /\ (last.op = "switch" /\ last.name = "snap1" /\ last.fault = "none"
            /\ OnlyCheckpoint(pre, last.vm, "snap1"))
        => /\ last.ok
           /\ Cardinality(list_checkpoints(World, last.vm)) = 2
           /\ NameAndActive(World, last.vm)
                = {<<"snap1", TRUE>>, <<AutoName(now), FALSE>>}
           /\ disk[CkptDisk(last.vm, AutoName(now))] = pre.disk[MainDisk(last.vm)]
           /\ dom[last.vm].disk = CkptDisk(last.vm, "snap1")

\* Reached: the second call of a run is the switch to snap1, made on the VM
\* with snap1 as its one checkpoint, and two checkpoints are listed after it.
C11_Witness ==
    /\ calls = 2 /\ last.op = "switch" /\ last.name = "snap1" /\ last.ok
    /\ OnlyCheckpoint(pre, last.vm, "snap1")
    /\ Cardinality(list_checkpoints(World, last.vm)) = 2

\* C12 (create copies the persistent disk): a successful create_checkpoint
\* leaves in the new checkpoint the content of the disk that the persistent
\* definition designated when the call started, also for a running VM whose
\* live disk is another file.
C12_CopiesPersistentDisk ==
    (last.op = "create" /\ last.ok)
        => disk[Target] = pre.disk[XMLDescInactive(pre, last.vm)]

\* The file a call takes its data from is missing when the call starts.
MissingSource ==
    \/ last.op = "create" /\ ~Exists(pre, XMLDesc(pre, last.vm))
    \/ last.op = "switch" /\ (~Exists(pre, PreCurrent) \/ ~Exists(pre, Target))
    \/ last.op = "separate" /\ ~Exists(pre, Target)

\* C13 (missing source causes no mutation): create_checkpoint without the
\* VM's disk file, switch_checkpoint without the current disk or without the
\* target checkpoint disk, and separate_checkpoint_to_vm without the
\* checkpoint disk return failure and leave every file, every checkpoint
\* directory and every definition as they were.
C13_MissingSourceNoMutation ==
    (last.op \in Calls /\ pre.dom[last.vm].defined /\ MissingSource)
        => (~last.ok /\ World = pre)

\* C14 (newest first): in what list_checkpoints returns, of two entries the
\* one created later stands first, whatever the order in which the directory
\* yields the metadata files.
C14_NewestFirst ==
    \A vm \in CkptVMs : \A g \in glob(World, vm) :
        LET out == list_checkpoints_call(World, vm, g, "none").entries
        IN \A i, j \in DOMAIN out :
            meta[vm][out[i].stem].created > meta[vm][out[j].stem].created => i < j

\* The well-formed records of a checkpoint directory.
WellFormed(W, vm) == {n \in CkptNames : W.meta[vm][n].kind = "record"}

\* C15 (bad metadata tolerated): whatever mix of metadata files the
\* checkpoint directory holds, list_checkpoints returns, and what it returns
\* has exactly one entry for each well-formed record and no other entry.
C15_BadMetadataSkipped ==
    (last.op = "list" /\ last.fault = "none" /\ last.vm \in pre.dirs)
        => /\ last.ok
           /\ Len(last.out) = Cardinality(WellFormed(pre, last.vm))
           /\ {last.out[i].stem : i \in DOMAIN last.out} = WellFormed(pre, last.vm)

\* C16 (no checkpoint directory): list_checkpoints for a VM whose checkpoint
\* directory does not exist returns the empty list and leaves every file,
\* directory and definition as it was.
C16_NoDirectoryEmptyList ==
    (last.op = "list" /\ last.vm \notin pre.dirs)
        => (last.ok /\ last.out = <<>> /\ World = pre)

\* Reached: an unfaulted list_checkpoints on a defined VM without a
\* checkpoint directory.
C16_Witness ==
    /\ last.op = "list" /\ last.fault = "none"
    /\ pre.dom[last.vm].defined /\ last.vm \notin pre.dirs

\* C18 (no exception crosses the boundary): create_checkpoint,
\* switch_checkpoint, delete_checkpoint and separate_checkpoint_to_vm return
\* a boolean and list_checkpoints returns a list, whatever the hypervisor
\* and the files answer; none of them ends by raising.
C18_NothingRaised ==
    /\ last.op \in Calls => last.ok \in BOOLEAN
    /\ last.op = "list" => last.ok

\* C17 (delete removes both files): delete_checkpoint(vm, c) on a checkpoint
\* that is not the active one, no removal failing, returns success; afterwards
\* neither c.qcow2 nor c.json exists, whichever of the two existed before, and
\* every other file, the directories and the definitions are as they were.
C17_DeleteRemovesBoth ==
    (last.op = "delete" /\ last.fault = "none" /\ PreCurrent # Target)
        => /\ last.ok
           /\ ~Exists(World, Target) /\ ~MetaExists(World, last.vm, last.name)
           /\ \A p \in DiskPaths \ {Target} : disk[p] = pre.disk[p]
           /\ \A n \in CkptNames \ {last.name} : meta[last.vm][n] = pre.meta[last.vm][n]
           /\ dirs = pre.dirs /\ dom = pre.dom

\* Reached: a successful delete_checkpoint of a checkpoint of which only the
\* metadata file was left, beside another checkpoint.
C17_Witness ==
    /\ last.op = "delete" /\ last.fault = "none" /\ last.ok /\ PreCurrent # Target
    /\ ~Exists(pre, Target) /\ MetaExists(pre, last.vm, last.name)
    /\ \E n \in CkptNames \ {last.name} : Exists(pre, CkptDisk(last.vm, n))

\* C19 (promotion collision): separate_checkpoint_to_vm(c, new_vm, vm) when
\* <disk-root>/new_vm.qcow2 already exists returns failure and changes
\* nothing: c's disk and metadata, the existing new_vm disk, every other
\* file, the directories and all definitions are as before the call.
C19_PromotionCollision ==
    (last.op = "separate" /\ Exists(pre, MainDisk(last.newvm)))
        => (~last.ok /\ World = pre)

\* Reached: an unfaulted promotion of a whole, recorded checkpoint to a name
\* whose disk file exists with another content.
C19_Witness ==
    /\ last.op = "separate" /\ last.fault = "none"
    /\ Exists(pre, Target) /\ MetaExists(pre, last.vm, last.name)
    /\ pre.disk[MainDisk(last.newvm)] \in Contents \ {pre.disk[Target]}

\* C20 (promotion defines the new VM only): after a successful
\* separate_checkpoint_to_vm(c, new_vm, vm) a persistent definition new_vm,
\* not defined before, exists with disk path <disk-root>/new_vm.qcow2, that
\* file exists, and the definition of vm is what it was.
C20_PromotionDefinesNewVM ==
    (last.op = "separate" /\ last.ok)
        => /\ ~pre.dom[last.newvm].defined
           /\ dom[last.newvm].defined
           /\ dom[last.newvm].disk = MainDisk(last.newvm)
           /\ Exists(World, MainDisk(last.newvm))
           /\ dom[last.vm] = pre.dom[last.vm]

\* Reached: a successful promotion from a VM whose persistent disk is itself
\* a checkpoint.
C20_Witness ==
    /\ last.op = "separate" /\ last.ok /\ last.newvm # last.vm
    /\ pre.dom[last.vm].disk.dir = last.vm
    /\ dom[last.newvm].defined

(***************************************************************************)
(* C21..C30                                                                *)
(***************************************************************************)
\* C25 (promotion never strands the source VM): after a successful
\* separate_checkpoint_to_vm(c, new_vm, vm), also of vm's active checkpoint,
\* the persistent disk path of vm designates an existing file.
C25_SourceNotStranded ==
    (last.op = "separate" /\ last.ok) => Exists(World, dom[last.vm].disk)

\* The checkpoint name the auto-save of the last call generates.
Generated == AutoName(now)

\* C27 (auto-preserve overwrites nothing): when switch_checkpoint is called
\* and a checkpoint of the generated name auto-<second> already exists, the
\* disk file and the metadata file of that checkpoint keep their content.
C27_AutoPreserveKeepsExisting ==
    (last.op = "switch" /\ Exists(pre, CkptDisk(last.vm, Generated)))
        => /\ disk[CkptDisk(last.vm, Generated)] = pre.disk[CkptDisk(last.vm, Generated)]
           /\ meta[last.vm][Generated] = pre.meta[last.vm][Generated]

\* C28 (switch loses nothing and activates its target): after a successful
\* switch_checkpoint(vm, c) list_checkpoints reports c as active, and every
\* checkpoint listed before the call is listed with the disk content and the
\* creation time it had.
C28_SwitchLosesNothing ==
    (last.op = "switch" /\ last.ok)
        => /\ \E e \in list_checkpoints(World, last.vm) :
                e.name = last.name /\ e.is_active
           /\ \A n \in CkptNames : Listed(pre, last.vm, n)
                => /\ Listed(World, last.vm, n)
                   /\ disk[CkptDisk(last.vm, n)] = pre.disk[CkptDisk(last.vm, n)]
                   /\ meta[last.vm][n].created = pre.meta[last.vm][n].created

\* C29 (a switch between checkpoints copies nothing): a successful
\* switch_checkpoint of a VM whose persistent disk lies in its own checkpoint
\* directory leaves every disk file, metadata file and directory as it was,
\* lists the same checkpoints, and changes of the definitions only the
\* persistent disk path of that VM, to the target.
C29_SwitchBetweenCheckpoints ==
    (last.op = "switch" /\ last.ok /\ PreCurrent.dir = last.vm)
        => /\ disk = pre.disk /\ meta = pre.meta /\ dirs = pre.dirs
           /\ {e.name : e \in list_checkpoints(World, last.vm)}
                = {e.name : e \in list_checkpoints(pre, last.vm)}
           /\ dom = [pre.dom EXCEPT ![last.vm].disk = Target]

\* Reached: a successful switch from one checkpoint to another one.
C29_Witness ==
    /\ last.op = "switch" /\ last.ok /\ last.fault = "none"
    /\ PreCurrent.dir = last.vm /\ PreCurrent # Target
    /\ dom[last.vm].disk = Target

\* C26 (a switch is durable against other configuration edits): on a running
\* VM whose persistent disk path is a checkpoint, as a switch_checkpoint has
\* left it, a successful set_boot_order, attach_iso, eject_iso, set_graphics,
\* set_network, set_audio, set_gpu_passthrough or set_usb_passthrough leaves
\* the persistent disk path as it was.
C26_SwitchDurable ==
    (last.op \in EditOps /\ last.ok /\ pre.dom[last.vm].running
            /\ PreCurrent.dir = last.vm)
        => dom[last.vm].disk = PreCurrent

\* No metadata file without its disk file in the checkpoint directory of vm.
NoOrphanMetadata(W, vm) ==
    \A n \in CkptNames : MetaExists(W, vm, n) => Exists(W, CkptDisk(vm, n))

\* C30 (VM deletion keeps the checkpoint store consistent): after
\* delete_vm(name, remove_storage=True) on a VM whose disk is one of its
\* checkpoints, the checkpoint directory having held no metadata file without
\* its disk file before, it holds none afterwards.
C30_DeleteVmKeepsStoreConsistent ==
    (last.op = "delete_vm" /\ last.ok /\ last.vm \in CkptVMs
            /\ PreCurrent.dir = last.vm /\ NoOrphanMetadata(pre, last.vm))
        => NoOrphanMetadata(World, last.vm)

\* A switch and a delete of the same checkpoint, run by the two threads, have
\* both returned success.
BothSucceeded(t) ==
    /\ threads[t].pc = "done" /\ threads[t].op = "switch" /\ threads[t].ok
    /\ threads[Other(t)].pc = "done" /\ threads[Other(t)].op = "delete"
    /\ threads[Other(t)].ok
    /\ threads[Other(t)].name = threads[t].name

\* C21 (unlocked race): the calls take no lock, and when switch_checkpoint(vm,
\* c) and delete_checkpoint(vm, c) of two threads have both returned success
\* (c not being the name the switch generated for its own auto-save), the
\* persistent disk path designates c's disk file and that file does not
\* exist.
C21_RaceCorrupts ==
    \A t \in Threads :
        /\ (threads[t].pc \notin {"idle", "done"} /\ threads[Other(t)].pc = "idle")
            => ENABLED ThreadStep(Other(t))
        /\ (BothSucceeded(t) /\ threads[t].name # threads[t].auto)
            => /\ dom["alpha"].disk = CkptDisk("alpha", threads[t].name)
               /\ ~Exists(World, dom["alpha"].disk)

\* Reached: the delete removed the disk file while the switch stood between
\* its test of the target and its definition, the checkpoint was not the
\* active one when either call started, both calls returned success, and the
\* persistent disk path designates the removed file.
C21_Witness ==
    \E t \in Threads :
        /\ BothSucceeded(t)
        /\ threads[t].current # CkptDisk("alpha", threads[t].name)
        /\ threads[Other(t)].saw \in {"copy", "meta", "define"}
        /\ ~Exists(World, dom["alpha"].disk)


\* C22: every callback that copied a disk was run by a worker thread; a
\* worker is alive only while the dialog is in its polling loop, so that the
\* dialog neither reads the result, nor starts another operation, nor handles
\* a key before the worker has ended.
C22_CopiesRunOnWorker ==
    dialog.pc # "closed" =>
        /\ dialog.called.copies => dialog.called.by = "worker"
        /\ dialog.worker.alive => dialog.pc = "polling"
        /\ dialog.pc # "polling" => dialog.worker = NoWorker

\* C23: back in the input loop after a callback that returned false, the
\* status shown is of type "error".
C23_FailureShownAsError ==
    (dialog.pc = "input" /\ dialog.called.op # "none" /\ ~dialog.called.ok)
        => dialog.status = "error"

\* C24: within one session of the dialog the delete callback is never invoked
\* for the checkpoint the persistent definition points to, and when a delete
\* is dispatched every cached is_active flag agrees with the persistent disk
\* path.
C24_DeleteNeverActive ==
    dialog.pc # "closed" =>
        /\ dialog.called.op = "delete" => ~dialog.called.active
        /\ (dialog.worker.op = "delete" /\ dialog.worker.alive) =>
            \A i \in DOMAIN dialog.checkpoints :
                dialog.checkpoints[i].is_active
                    <=> (dom[DialogVM].disk = CkptDisk(DialogVM, dialog.checkpoints[i].name))

\* A delete carried out after a switch made in the same session.
C24_Witness ==
    /\ dialog.pc = "input"
    /\ dialog.called.op = "delete" /\ dialog.called.ok /\ dialog.called.by = "worker"
    /\ dom[DialogVM].disk # dialog.opened_on
    /\ dom[DialogVM].disk.dir = DialogVM

====
